---- MODULE Spec2Model ----
(***************************************************************************)
(* A model of the concurrency core of python-multithreaded-service:        *)
(*   multithreaded_service/threading_basics.py                             *)
(*       unsafe_increment, safe_increment, producer_consumer,              *)
(*       parallel_sleep                                                    *)
(*   cpu_multiprocessing.py        run_process_pool, fib_task              *)
(*   multithreaded_service/cpu_tasks.py   fib                              *)
(*   tests/test_threading_basics.py       test_race_condition              *)
(* Each function has its own group of variables and its own               *)
(* specification; a specification leaves the other groups idle.            *)
(***************************************************************************)
EXTENDS Integers, Sequences, FiniteSets, TLC

\* --------------------------------------------------------------- constants
\* test_parallel_sleep_timing: n = 4, duration = 0.2 s and the limit 0.5 s, in
\* ticks of 0.1 s
TestN == 4
TestDuration == 2
TestLimit == 5

\* ------------------------------------------------------------------ bounds
MaxWorkers == 3     \* worker counts n are drawn from 0..MaxWorkers
MaxLoops == 2       \* loop counts are drawn from 0..MaxLoops
MaxIncrements == 6  \* and n * loops is at most MaxIncrements
MaxItems == 4       \* producer_consumer's num_items is drawn from 0..MaxItems
MaxTasks == 4       \* parallel_sleep's n is drawn from 0..MaxTasks
MaxDuration == 2    \* parallel_sleep's duration, in ticks of 0.1 s, is drawn from -1..MaxDuration
MaxInputs == 3      \* run_process_pool's nums has at most MaxInputs elements
MaxPool == 2        \* run_process_pool's max_workers is drawn from 0..MaxPool
MaxFibArg == 6      \* fib's and safe_fib's n is drawn from -MaxNegArg..MaxFibArg
MaxNegArg == 2
MaxBlockTicks == 3   \* a timed block runs for at most MaxBlockTicks ticks
MaxValLen == 3       \* an environment value has at most MaxValLen characters
MaxBatch == 3        \* when both pools are run, n and len(nums) are at most MaxBatch
MaxCores == 3        \* os.cpu_count() is None or in 1..MaxCores

\* ================================================================ counters
\* unsafe_increment / safe_increment (threading_basics.py 18-51) and the
\* test that calls one after the other (test_threading_basics.py 7-13).
VARIABLES
    incFn,      \* the function running: "unsafe_increment", "safe_increment" or "none"
    n,          \* its argument n (worker count)
    loops,      \* its argument loops
    counter,    \* the shared nonlocal counter
    lock,       \* safe_increment's threading.Lock: 0 when free, else the holder
    tpc,        \* tpc[t]: where thread t of `threads` is
    tmp,        \* tmp[t]: the value thread t read from counter
    iter,       \* iter[t]: iterations of the for loop thread t has finished
    mpc,        \* the caller: "start" (t.start() loop), "join", "returned"
    mi,         \* index of the next thread the caller starts or joins
    ret,        \* the value returned
    sched,      \* the interleaving the scheduler produces: "any", "lockstep", "serial"
    testpc,     \* test_race_condition: "none", "unsafe", "safe", "assert", "passed", "failed"
    wrong,      \* the test's local `wrong`
    right       \* the test's local `right`

incVars == <<incFn, n, loops, counter, lock, tpc, tmp, iter, mpc, mi, ret, sched>>
testVars == <<testpc, wrong, right>>

Threads == 1..n

\* The state on entry to unsafe_increment / safe_increment: counter = 0, a fresh
\* lock, the list of n threads built and none started.
IncCall(f, nn, ll) ==
    /\ incFn' = f
    /\ n' = nn
    /\ loops' = ll
    /\ counter' = 0
    /\ lock' = 0
    /\ tpc' = [t \in 1..nn |-> "new"]
    /\ tmp' = [t \in 1..nn |-> 0]
    /\ iter' = [t \in 1..nn |-> 0]
    /\ mpc' = "start"
    /\ mi' = 1
    /\ ret' = 0

IncEntry(f, nn, ll) ==
    /\ incFn = f
    /\ n = nn
    /\ loops = ll
    /\ counter = 0
    /\ lock = 0
    /\ tpc = [t \in 1..nn |-> "new"]
    /\ tmp = [t \in 1..nn |-> 0]
    /\ iter = [t \in 1..nn |-> 0]
    /\ mpc = "start"
    /\ mi = 1
    /\ ret = 0

IncIdle ==
    /\ IncEntry("none", 0, 0)
    /\ sched = "any"

TestIdle ==
    /\ testpc = "none"
    /\ wrong = 0
    /\ right = 0

\* The first statement of _inc's loop body, or the end of _inc when the loop
\* has no iteration left.
FirstPc == IF incFn = "unsafe_increment" THEN "read" ELSE "acquire"

LoopPc(done) == IF done < loops THEN FirstPc ELSE "done"

\* Progress of thread t through _inc, counted in steps of the unsafe body.
Progress(t) ==
    CASE tpc[t] = "new" -> 0
      [] tpc[t] = "done" -> 3 * loops
      [] tpc[t] = "read" -> 3 * iter[t]
      [] tpc[t] = "yield" -> 3 * iter[t] + 1
      [] tpc[t] = "write" -> 3 * iter[t] + 2
      [] OTHER -> 3 * iter[t]

\* Which thread the scheduler lets run next. "any": every interleaving.
\* "lockstep": all threads started, then the least advanced thread runs, so
\* that all read, then all yield, then all write. "serial": a thread runs only
\* when every thread before it in `threads` has finished.
Permits(t) ==
    CASE sched = "any" -> TRUE
      [] sched = "lockstep" ->
            /\ mpc # "start"
            /\ \A u \in Threads : Progress(t) <= Progress(u)
            /\ \A u \in Threads : Progress(u) = Progress(t) => t <= u
      [] sched = "serial" -> \A u \in Threads : u < t => tpc[u] = "done"
      [] OTHER -> FALSE

\* for t in threads: t.start()
StartThread ==
    /\ incFn # "none"
    /\ mpc = "start"
    /\ mi <= n
    /\ tpc' = [tpc EXCEPT ![mi] = LoopPc(0)]
    /\ mi' = mi + 1
    /\ UNCHANGED <<incFn, n, loops, counter, lock, tmp, iter, mpc, ret, sched>>

\* the start loop is over; the join loop begins
StartDone ==
    /\ incFn # "none"
    /\ mpc = "start"
    /\ mi > n
    /\ mpc' = "join"
    /\ mi' = 1
    /\ UNCHANGED <<incFn, n, loops, counter, lock, tpc, tmp, iter, ret, sched>>

\* for t in threads: t.join()
JoinThread ==
    /\ mpc = "join"
    /\ mi <= n
    /\ tpc[mi] = "done"
    /\ mi' = mi + 1
    /\ UNCHANGED <<incFn, n, loops, counter, lock, tpc, tmp, iter, mpc, ret, sched>>

\* return counter
IncReturn ==
    /\ mpc = "join"
    /\ mi > n
    /\ ret' = counter
    /\ mpc' = "returned"
    /\ UNCHANGED <<incFn, n, loops, counter, lock, tpc, tmp, iter, mi, sched>>

\* ---- unsafe_increment._inc
\* tmp = counter
UnsafeRead(t) ==
    /\ incFn = "unsafe_increment"
    /\ tpc[t] = "read"
    /\ tmp' = [tmp EXCEPT ![t] = counter]
    /\ tpc' = [tpc EXCEPT ![t] = "yield"]
    /\ UNCHANGED <<incFn, n, loops, counter, lock, iter, mpc, mi, ret, sched>>

\* os.sched_yield()
UnsafeYield(t) ==
    /\ incFn = "unsafe_increment"
    /\ tpc[t] = "yield"
    /\ tpc' = [tpc EXCEPT ![t] = "write"]
    /\ UNCHANGED <<incFn, n, loops, counter, lock, tmp, iter, mpc, mi, ret, sched>>

\* mutant: the write adds two
UnsafeStored_Two(t) == tmp[t] + 2

\* mutant: the write is a fused, atomic increment of the shared counter
UnsafeStored_Atomic(t) == counter + 1

\* mutant: the write stores what was read
UnsafeStored_Same(t) == tmp[t]

\* the value the write stores
UnsafeStored(t) == tmp[t] + 1

\* counter = tmp + 1, and the loop's next iteration or its end
UnsafeWrite(t) ==
    /\ incFn = "unsafe_increment"
    /\ tpc[t] = "write"
    /\ counter' = UnsafeStored(t)
    /\ iter' = [iter EXCEPT ![t] = iter[t] + 1]
    /\ tpc' = [tpc EXCEPT ![t] = LoopPc(iter[t] + 1)]
    /\ UNCHANGED <<incFn, n, loops, lock, tmp, mpc, mi, ret, sched>>

\* ---- safe_increment._inc
\* mutant: the lock never blocks
LockFree_Never(t) == TRUE

\* whether thread t may take the lock
LockFree(t) == lock = 0

\* with lock:   (lock.acquire(), blocking while another thread holds it)
SafeAcquire(t) ==
    /\ incFn = "safe_increment"
    /\ tpc[t] = "acquire"
    /\ LockFree(t)
    /\ lock' = t
    /\ tpc' = [tpc EXCEPT ![t] = "load"]
    /\ UNCHANGED <<incFn, n, loops, counter, tmp, iter, mpc, mi, ret, sched>>

\* counter += 1, first half: load counter
SafeLoad(t) ==
    /\ incFn = "safe_increment"
    /\ tpc[t] = "load"
    /\ tmp' = [tmp EXCEPT ![t] = counter]
    /\ tpc' = [tpc EXCEPT ![t] = "store"]
    /\ UNCHANGED <<incFn, n, loops, counter, lock, iter, mpc, mi, ret, sched>>

\* counter += 1, second half: store the sum
SafeStore(t) ==
    /\ incFn = "safe_increment"
    /\ tpc[t] = "store"
    /\ counter' = tmp[t] + 1
    /\ tpc' = [tpc EXCEPT ![t] = "release"]
    /\ UNCHANGED <<incFn, n, loops, lock, tmp, iter, mpc, mi, ret, sched>>

\* mutant: the with block is left without releasing the lock
SafeRelease_Keep(t) ==
    /\ incFn = "safe_increment"
    /\ tpc[t] = "release"
    /\ lock' = lock
    /\ iter' = [iter EXCEPT ![t] = iter[t] + 1]
    /\ tpc' = [tpc EXCEPT ![t] = LoopPc(iter[t] + 1)]
    /\ UNCHANGED <<incFn, n, loops, counter, tmp, mpc, mi, ret, sched>>

\* leaving the with block: lock.release(), and the loop's next iteration or its end
SafeRelease(t) ==
    /\ incFn = "safe_increment"
    /\ tpc[t] = "release"
    /\ lock' = 0
    /\ iter' = [iter EXCEPT ![t] = iter[t] + 1]
    /\ tpc' = [tpc EXCEPT ![t] = LoopPc(iter[t] + 1)]
    /\ UNCHANGED <<incFn, n, loops, counter, tmp, mpc, mi, ret, sched>>

\* ---- test_race_condition
\* wrong = tb.unsafe_increment(..) has returned; right = tb.safe_increment(..) is called
TestCallSafe ==
    /\ testpc = "unsafe"
    /\ mpc = "returned"
    /\ wrong' = ret
    /\ testpc' = "safe"
    /\ IncCall("safe_increment", n, loops)
    /\ UNCHANGED <<sched, right>>

\* safe_increment has returned into `right`
TestStoreRight ==
    /\ testpc = "safe"
    /\ mpc = "returned"
    /\ right' = ret
    /\ testpc' = "assert"
    /\ UNCHANGED <<incVars, wrong>>

\* what the test asserts
TestAsserts == wrong < right /\ right = n * loops

\* assert wrong < right; assert right == 4 * 10_000
TestAssert ==
    /\ testpc = "assert"
    /\ testpc' = IF TestAsserts THEN "passed" ELSE "failed"
    /\ UNCHANGED <<incVars, wrong, right>>

MainStep == StartThread \/ StartDone \/ JoinThread \/ IncReturn

UnsafeStep(t) == UnsafeRead(t) \/ UnsafeYield(t) \/ UnsafeWrite(t)

SafeStep(t) == SafeAcquire(t) \/ SafeLoad(t) \/ SafeStore(t) \/ SafeRelease(t)

\* ======================================================= producer_consumer
\* threading_basics.py 57-82
VARIABLES
    num_items,  \* the argument
    q,          \* queue.Queue(): the items put and not yet got, oldest first
    unfinished, \* the queue's count of items put and not yet marked task_done
    results,    \* the shared list `results`
    ppc,        \* producer thread t1: "new", "loop", "done"
    pidx,       \* the producer's loop variable i (the next value it puts)
    cpc,        \* consumer thread t2: "new", "get", "test", "task_done", "done"
    item,       \* the consumer's local `item`
    dequeued,   \* every value q.get() has returned to the consumer, in order
    pcm,        \* the caller: "start_t1", "start_t2", "join_t1", "join_t2", "return", "returned"
    pcret       \* the list returned

pcVars == <<num_items, q, unfinished, results, ppc, pidx, cpc, item, dequeued, pcm, pcret>>

\* What the queue holds: an int, or None (the sentinel); the consumer's local
\* is unbound before its first q.get().
Item(v) == [tag |-> "int", val |-> v]
None == [tag |-> "None", val |-> 0]
Unbound == [tag |-> "unbound", val |-> 0]

\* mutant: the truthiness test `if not item`, which 0 passes as well
IsNone_Falsy(x) == x.tag = "None" \/ x.val = 0

\* item is None
IsNone(x) == x.tag = "None"

\* mutant: the item appended as it is
Transform_Same(x) == x.val

\* item * 2
Transform(x) == x.val * 2

PCEntry(k) ==
    /\ num_items = k
    /\ q = <<>>
    /\ unfinished = 0
    /\ results = <<>>
    /\ ppc = "new"
    /\ pidx = 0
    /\ cpc = "new"
    /\ item = Unbound
    /\ dequeued = <<>>
    /\ pcm = "start_t1"
    /\ pcret = <<>>

PCIdle == PCEntry(0)

\* t1.start()
PCStartProducer ==
    /\ pcm = "start_t1"
    /\ ppc' = "loop"
    /\ pcm' = "start_t2"
    /\ UNCHANGED <<num_items, q, unfinished, results, pidx, cpc, item, dequeued, pcret>>

\* t2.start()
PCStartConsumer ==
    /\ pcm = "start_t2"
    /\ cpc' = "get"
    /\ pcm' = "join_t1"
    /\ UNCHANGED <<num_items, q, unfinished, results, ppc, pidx, item, dequeued, pcret>>

\* t1.join()
PCJoinProducer ==
    /\ pcm = "join_t1"
    /\ ppc = "done"
    /\ pcm' = "join_t2"
    /\ UNCHANGED <<num_items, q, unfinished, results, ppc, pidx, cpc, item, dequeued, pcret>>

\* t2.join()
PCJoinConsumer ==
    /\ pcm = "join_t2"
    /\ cpc = "done"
    /\ pcm' = "return"
    /\ UNCHANGED <<num_items, q, unfinished, results, ppc, pidx, cpc, item, dequeued, pcret>>

\* return results
PCReturn ==
    /\ pcm = "return"
    /\ pcret' = results
    /\ pcm' = "returned"
    /\ UNCHANGED <<num_items, q, unfinished, results, ppc, pidx, cpc, item, dequeued>>

\* for i in range(num_items): log, q.put(i)   (the queue is unbounded: put never blocks)
ProducerPut ==
    /\ ppc = "loop"
    /\ pidx < num_items
    /\ q' = Append(q, Item(pidx))
    /\ unfinished' = unfinished + 1
    /\ pidx' = pidx + 1
    /\ UNCHANGED <<num_items, results, ppc, cpc, item, dequeued, pcm, pcret>>

\* mutant: the producer ends without putting the sentinel
ProducerSentinel_Skip ==
    /\ ppc = "loop"
    /\ pidx >= num_items
    /\ ppc' = "done"
    /\ UNCHANGED <<num_items, q, unfinished, results, pidx, cpc, item, dequeued, pcm, pcret>>

\* mutant: two sentinels are put
ProducerSentinel_Twice ==
    /\ ppc = "loop"
    /\ pidx >= num_items
    /\ q' = q \o <<None, None>>
    /\ unfinished' = unfinished + 2
    /\ ppc' = "done"
    /\ UNCHANGED <<num_items, results, pidx, cpc, item, dequeued, pcm, pcret>>

\* q.put(None), after the loop; the producer ends
ProducerSentinel ==
    /\ ppc = "loop"
    /\ pidx >= num_items
    /\ q' = Append(q, None)
    /\ unfinished' = unfinished + 1
    /\ ppc' = "done"
    /\ UNCHANGED <<num_items, results, pidx, cpc, item, dequeued, pcm, pcret>>

\* mutant: a LIFO queue, the newest entry is taken
ConsumerGet_Lifo ==
    /\ cpc = "get"
    /\ q # <<>>
    /\ item' = q[Len(q)]
    /\ q' = SubSeq(q, 1, Len(q) - 1)
    /\ dequeued' = Append(dequeued, q[Len(q)])
    /\ cpc' = "test"
    /\ UNCHANGED <<num_items, unfinished, results, ppc, pidx, pcm, pcret>>

\* item = q.get(), blocking while the queue is empty
ConsumerGet ==
    /\ cpc = "get"
    /\ q # <<>>
    /\ item' = Head(q)
    /\ q' = Tail(q)
    /\ dequeued' = Append(dequeued, Head(q))
    /\ cpc' = "test"
    /\ UNCHANGED <<num_items, unfinished, results, ppc, pidx, pcm, pcret>>

\* if item is None: q.task_done(); break
ConsumerStop ==
    /\ cpc = "test"
    /\ IsNone(item)
    /\ unfinished' = unfinished - 1
    /\ cpc' = "done"
    /\ UNCHANGED <<num_items, q, results, ppc, pidx, item, dequeued, pcm, pcret>>

\* results.append(item * 2)
ConsumerAppend ==
    /\ cpc = "test"
    /\ ~IsNone(item)
    /\ results' = Append(results, Transform(item))
    /\ cpc' = "task_done"
    /\ UNCHANGED <<num_items, q, unfinished, ppc, pidx, item, dequeued, pcm, pcret>>

\* q.task_done(), and back to the head of `while True`
ConsumerTaskDone ==
    /\ cpc = "task_done"
    /\ unfinished' = unfinished - 1
    /\ cpc' = "get"
    /\ UNCHANGED <<num_items, q, results, ppc, pidx, item, dequeued, pcm, pcret>>

PCMain == PCStartProducer \/ PCStartConsumer \/ PCJoinProducer \/ PCJoinConsumer \/ PCReturn

Producer == ProducerPut \/ ProducerSentinel

Consumer == ConsumerGet \/ ConsumerStop \/ ConsumerAppend \/ ConsumerTaskDone

\* ============================================================ worker pools
\* parallel_sleep (threading_basics.py 88-103) and run_process_pool
\* (cpu_multiprocessing.py 17-37). Time is counted in ticks of 0.1 s; only
\* time.sleep takes time, every other step is instantaneous.
VARIABLES
    poolFn,      \* the function running: "parallel_sleep", "run_process_pool" or "none"
    pn,          \* parallel_sleep's argument n
    duration,    \* parallel_sleep's argument duration, in ticks
    nums,        \* run_process_pool's argument nums
    max_workers, \* run_process_pool's argument max_workers; 0 stands for None
    cpu_count,   \* what os.cpu_count() returns; 0 stands for None
    workers,     \* the pool's workers: workers[w] is "absent", "idle", "busy" or "exited"
    idleSem,     \* the executor's idle semaphore: tasks ended since the last submit used one
    shutdown,    \* the executor has been shut down (the with block was left)
    futures,     \* the futures in submission order: argument, state, worker, outcome
    now,         \* time.perf_counter(), in ticks since the call
    plpc,        \* the caller: "enter", "submit", "as_completed", "next", "body", "exit", "returned", "raised"
    snap,        \* as_completed: futures found finished on entry and not yet yielded
    waiter,      \* as_completed: futures finished since entry and not yet yielded, oldest first
    cur,         \* the future the loop body holds (f / fut); 0 when none
    presults,    \* the list `results`
    perrors,     \* the arguments of the tasks whose failure was logged or printed
    pret         \* the list returned

poolVars == <<poolFn, pn, duration, nums, max_workers, cpu_count, workers, idleSem,
              shutdown, futures, now, plpc, snap, waiter, cur, presults, perrors, pret>>

\* cpu_tasks.fib raises ValueError for these arguments
FibRaises(k) == k < 0

\* cpu_tasks.fib, computed as the code computes it, for an argument it does
\* not raise for

RECURSIVE fib(_)
fib(k) == IF k <= 1 THEN k ELSE fib(k - 1) + fib(k - 2)

\* mutant: the recursion starts one too far down
fib_task_Off(k) == fib(k - 1)

\* cpu_multiprocessing.fib_task
fib_task(k) == fib(k)

\* mutant: the larger of the core count and 2
ProcessPoolSize_AtLeastTwo ==
    IF max_workers # 0 THEN max_workers ELSE IF cpu_count > 2 THEN cpu_count ELSE 2

\* max_workers or (os.cpu_count() or 2)
ProcessPoolSize == IF max_workers # 0 THEN max_workers ELSE IF cpu_count # 0 THEN cpu_count ELSE 2

\* mutant: a pool one worker short
ThreadPoolSize_Short == pn - 1

\* ThreadPoolExecutor(max_workers=n)
ThreadPoolSize == pn

PoolSize == IF poolFn = "parallel_sleep" THEN ThreadPoolSize ELSE ProcessPoolSize

\* mutant: the indices run from 1
SleepArgs_FromOne == [k \in 1..pn |-> k]

\* range(n): the arguments of parallel_sleep's tasks, in submission order
SleepArgs == [k \in 1..pn |-> k - 1]

\* the arguments of the tasks to submit, in submission order:
\* range(n) for parallel_sleep, nums for run_process_pool
TaskArgs == IF poolFn = "parallel_sleep" THEN SleepArgs ELSE nums

PoolEntry(f) ==
    /\ poolFn = f
    /\ workers = <<>>
    /\ idleSem = 0
    /\ shutdown = FALSE
    /\ futures = <<>>
    /\ now = 0
    /\ plpc = "enter"
    /\ snap = {}
    /\ waiter = <<>>
    /\ cur = 0
    /\ presults = <<>>
    /\ perrors = <<>>
    /\ pret = <<>>

PoolIdle ==
    /\ PoolEntry("none")
    /\ pn = 0
    /\ duration = 0
    /\ nums = <<>>
    /\ max_workers = 0
    /\ cpu_count = 0

WorkerIds == 1..Len(workers)

Lowest(S) == CHOOSE w \in S : \A v \in S : w <= v

Pending == {k \in 1..Len(futures) : futures[k].st = "pending"}

Running == {k \in 1..Len(futures) : futures[k].st = "running"}

Finished == {k \in 1..Len(futures) : futures[k].st = "finished"}

\* entering the with block: the executor is built with PoolSize workers, none
\* of them started; a size below 1 makes the constructor raise ValueError
PoolEnter ==
    /\ poolFn # "none"
    /\ plpc = "enter"
    /\ IF PoolSize >= 1
       THEN /\ workers' = [w \in 1..PoolSize |-> "absent"]
            /\ plpc' = "submit"
       ELSE /\ workers' = workers
            /\ plpc' = "raised"
    /\ UNCHANGED <<poolFn, pn, duration, nums, max_workers, cpu_count, idleSem, shutdown,
                   futures, now, snap, waiter, cur, presults, perrors, pret>>

\* pool.submit(task, arg): the work item is queued; when no worker is idle
\* (the idle semaphore is 0) and the pool is not full, a worker is started
PoolSubmit ==
    /\ plpc = "submit"
    /\ Len(futures) < Len(TaskArgs)
    /\ futures' = Append(futures, [arg |-> TaskArgs[Len(futures) + 1], st |-> "pending",
                                   worker |-> 0, ok |-> TRUE, val |-> 0, start |-> 0])
    /\ IF idleSem > 0
       THEN /\ idleSem' = idleSem - 1
            /\ workers' = workers
       ELSE /\ idleSem' = idleSem
            /\ LET absent == {w \in WorkerIds : workers[w] = "absent"}
               IN  workers' = IF absent = {} THEN workers
                              ELSE [workers EXCEPT ![Lowest(absent)] = "idle"]
    /\ UNCHANGED <<poolFn, pn, duration, nums, max_workers, cpu_count, shutdown,
                   now, plpc, snap, waiter, cur, presults, perrors, pret>>

\* an idle worker takes the oldest queued work item and begins the task;
\* parallel_sleep's _task reads start = time.perf_counter()
WorkerTake ==
    /\ Pending # {}
    /\ \E w \in WorkerIds : workers[w] = "idle"
    /\ LET k == Lowest(Pending)
           w == Lowest({v \in WorkerIds : workers[v] = "idle"})
       IN  /\ futures' = [futures EXCEPT ![k].st = "running", ![k].worker = w, ![k].start = now]
           /\ workers' = [workers EXCEPT ![w] = "busy"]
    /\ UNCHANGED <<poolFn, pn, duration, nums, max_workers, cpu_count, idleSem, shutdown,
                   now, plpc, snap, waiter, cur, presults, perrors, pret>>

\* the task of future k ends, with a value or with an exception: the future is
\* finished, as_completed's waiter (once installed) is told, the worker is idle
\* again and releases the idle semaphore
TaskEnd(k, ok, val) ==
    /\ futures' = [futures EXCEPT ![k].st = "finished", ![k].ok = ok, ![k].val = val]
    /\ workers' = [workers EXCEPT ![futures[k].worker] = "idle"]
    /\ idleSem' = idleSem + 1
    /\ waiter' = IF plpc \in {"next", "body"} THEN Append(waiter, k) ELSE waiter
    /\ UNCHANGED <<poolFn, pn, duration, nums, max_workers, cpu_count, shutdown,
                   now, plpc, snap, cur, presults, perrors, pret>>

\* the elapsed time _task reports
Elapsed(k) == now - futures[k].start

\* parallel_sleep._task: time.sleep(duration) is over; return i, perf_counter() - start
SleepTaskReturn(k) ==
    /\ poolFn = "parallel_sleep"
    /\ k \in Running
    /\ duration >= 0
    /\ now >= futures[k].start + duration
    /\ TaskEnd(k, TRUE, Elapsed(k))

\* parallel_sleep._task: time.sleep raises ValueError for a negative duration
SleepTaskRaise(k) ==
    /\ poolFn = "parallel_sleep"
    /\ k \in Running
    /\ duration < 0
    /\ TaskEnd(k, FALSE, 0)

\* fib_task(n) in a worker process: fib's value, or its ValueError
FibTaskEnd(k) ==
    /\ poolFn = "run_process_pool"
    /\ k \in Running
    /\ IF FibRaises(futures[k].arg)
       THEN TaskEnd(k, FALSE, 0)
       ELSE TaskEnd(k, TRUE, fib_task(futures[k].arg))

\* for f in as_completed(futures): on entry the futures already finished are
\* set aside (a set) and a waiter is installed on the others
AsCompletedEnter ==
    /\ plpc = "submit"
    /\ Len(futures) = Len(TaskArgs)
    /\ snap' = Finished
    /\ waiter' = <<>>
    /\ plpc' = "next"
    /\ UNCHANGED <<poolFn, pn, duration, nums, max_workers, cpu_count, workers, idleSem,
                   shutdown, futures, now, cur, presults, perrors, pret>>

\* as_completed yields a future finished on entry, in the set's order (any)
YieldSnapshot(k) ==
    /\ plpc = "next"
    /\ k \in snap
    /\ snap' = snap \ {k}
    /\ cur' = k
    /\ plpc' = "body"
    /\ UNCHANGED <<poolFn, pn, duration, nums, max_workers, cpu_count, workers, idleSem,
                   shutdown, futures, now, waiter, presults, perrors, pret>>

\* mutant: the future that finished last is yielded first
YieldWaited_Last ==
    /\ plpc = "next"
    /\ snap = {}
    /\ waiter # <<>>
    /\ cur' = waiter[Len(waiter)]
    /\ waiter' = SubSeq(waiter, 1, Len(waiter) - 1)
    /\ plpc' = "body"
    /\ UNCHANGED <<poolFn, pn, duration, nums, max_workers, cpu_count, workers, idleSem,
                   shutdown, futures, now, snap, presults, perrors, pret>>

\* as_completed yields the future that finished first among those it waits for
YieldWaited ==
    /\ plpc = "next"
    /\ snap = {}
    /\ waiter # <<>>
    /\ cur' = Head(waiter)
    /\ waiter' = Tail(waiter)
    /\ plpc' = "body"
    /\ UNCHANGED <<poolFn, pn, duration, nums, max_workers, cpu_count, workers, idleSem,
                   shutdown, futures, now, snap, presults, perrors, pret>>

\* mutant: the pair is keyed by the position in the submission order
ProcKey_Index(k) == k

\* n = futures[fut]
ProcKey(k) == futures[k].arg

\* what the loop body appends for future k: f.result() in parallel_sleep,
\* (n, fut.result()) in run_process_pool
Pair(k) ==
    IF poolFn = "parallel_sleep" THEN <<futures[k].arg, futures[k].val>>
    ELSE <<ProcKey(k), futures[k].val>>

\* mutant: no except clause, a failed task's exception leaves the loop
LoopBody_NoExcept ==
    /\ plpc = "body"
    /\ IF futures[cur].ok
       THEN /\ presults' = Append(presults, Pair(cur))
            /\ plpc' = "next"
       ELSE /\ presults' = presults
            /\ plpc' = "raised"
    /\ cur' = 0
    /\ UNCHANGED <<poolFn, pn, duration, nums, max_workers, cpu_count, workers, idleSem,
                   shutdown, futures, now, snap, waiter, perrors, pret>>

\* try: results.append(...)   except Exception: log / print
LoopBody ==
    /\ plpc = "body"
    /\ IF futures[cur].ok
       THEN /\ presults' = Append(presults, Pair(cur))
            /\ perrors' = perrors
       ELSE /\ presults' = presults
            /\ perrors' = Append(perrors, futures[cur].arg)
    /\ cur' = 0
    /\ plpc' = "next"
    /\ UNCHANGED <<poolFn, pn, duration, nums, max_workers, cpu_count, workers, idleSem,
                   shutdown, futures, now, snap, waiter, pret>>

\* as_completed is exhausted; leaving the with block calls shutdown(wait=True)
PoolExit ==
    /\ plpc = "next"
    /\ snap = {}
    /\ waiter = <<>>
    /\ Finished = 1..Len(futures)
    /\ shutdown' = TRUE
    /\ plpc' = "exit"
    /\ UNCHANGED <<poolFn, pn, duration, nums, max_workers, cpu_count, workers, idleSem,
                   futures, now, snap, waiter, cur, presults, perrors, pret>>

\* a worker of a pool that was shut down finds no work left and ends
WorkerExit ==
    /\ shutdown
    /\ Pending = {}
    /\ \E w \in WorkerIds : workers[w] = "idle"
    /\ workers' = [workers EXCEPT ![Lowest({v \in WorkerIds : workers[v] = "idle"})] = "exited"]
    /\ UNCHANGED <<poolFn, pn, duration, nums, max_workers, cpu_count, idleSem, shutdown,
                   futures, now, plpc, snap, waiter, cur, presults, perrors, pret>>

\* mutant: shutdown(wait=False), the workers are not joined
PoolReturn_NoWait ==
    /\ plpc = "exit"
    /\ pret' = presults
    /\ plpc' = "returned"
    /\ UNCHANGED <<poolFn, pn, duration, nums, max_workers, cpu_count, workers, idleSem,
                   shutdown, futures, now, snap, waiter, cur, presults, perrors>>

\* shutdown(wait=True) has joined every worker; return results
PoolReturn ==
    /\ plpc = "exit"
    /\ \A w \in WorkerIds : workers[w] \in {"absent", "exited"}
    /\ pret' = presults
    /\ plpc' = "returned"
    /\ UNCHANGED <<poolFn, pn, duration, nums, max_workers, cpu_count, workers, idleSem,
                   shutdown, futures, now, snap, waiter, cur, presults, perrors>>

\* a step that takes no time
SleepInstant ==
    \/ PoolEnter \/ PoolSubmit \/ WorkerTake \/ AsCompletedEnter
    \/ (\E k \in 1..Len(futures) : YieldSnapshot(k))
    \/ YieldWaited \/ LoopBody \/ PoolExit \/ WorkerExit \/ PoolReturn
    \/ (\E k \in 1..Len(futures) : SleepTaskReturn(k) \/ SleepTaskRaise(k))

\* time passes while every thread sleeps or waits
Tick ==
    /\ poolFn = "parallel_sleep"
    /\ Running # {}
    /\ ~ENABLED SleepInstant
    /\ now' = now + 1
    /\ UNCHANGED <<poolFn, pn, duration, nums, max_workers, cpu_count, workers, idleSem,
                   shutdown, futures, plpc, snap, waiter, cur, presults, perrors, pret>>

\* ============================================================ fib, safe_fib
\* cpu_tasks.py: fib is evaluated frame by frame, as the interpreter does it; a
\* frame is [n, pc, a, b] with pc "enter" (before the tests), "first" (waiting
\* for fib(n-1)), "second" (waiting for fib(n-2)) and "add" (both values known).
VARIABLES
    fibCall,    \* the function called: "none", "fib" or "safe_fib"
    fn,         \* the argument n
    fdefault,   \* safe_fib's default (None when not given)
    stack,      \* the frames of fib, the top one last
    sfpc,       \* the outermost call: "call", "except", "logged", "returned", "raised"
    fexc,       \* the exception in flight or propagated: "none" or "ValueError"
    fout,       \* the value returned
    flog,       \* the lines written by _logger.error
    fseen       \* the pairs <<k, v>> of every call fib(k) that returned v

fibVars == <<fibCall, fn, fdefault, stack, sfpc, fexc, fout, flog, fseen>>

Frame(k) == [n |-> k, pc |-> "enter", a |-> 0, b |-> 0]

FibEntry(f, k, d) ==
    /\ fibCall = f
    /\ fn = k
    /\ fdefault = d
    /\ stack = IF f = "none" THEN <<>> ELSE <<Frame(k)>>
    /\ sfpc = "call"
    /\ fexc = "none"
    /\ fout = 0
    /\ flog = <<>>
    /\ fseen = {}

FibIdle == FibEntry("none", 0, None)

Top == stack[Len(stack)]

\* if n < 0: raise ValueError(...)   nothing in fib catches it, so every frame
\* is left; safe_fib's try catches it, a direct caller receives it
FibCheck ==
    /\ stack # <<>>
    /\ Top.pc = "enter"
    /\ FibRaises(Top.n)
    /\ stack' = <<>>
    /\ fexc' = "ValueError"
    /\ sfpc' = IF fibCall = "safe_fib" THEN "except" ELSE "raised"
    /\ UNCHANGED <<fibCall, fn, fdefault, fout, flog, fseen>>

\* a frame returns v: to the frame below, or to the outermost caller (safe_fib's
\* `return fib(n)` passes the value on)
FibReturn(v) ==
    LET rest == SubSeq(stack, 1, Len(stack) - 1)
        c == rest[Len(rest)]
    IN  /\ fseen' = fseen \cup {<<Top.n, v>>}
        /\ IF rest = <<>>
           THEN /\ stack' = <<>>
                /\ fout' = v
                /\ sfpc' = "returned"
           ELSE /\ stack' = IF c.pc = "first"
                            THEN [rest EXCEPT ![Len(rest)] = [c EXCEPT !.a = v, !.pc = "second"]]
                                     \o <<Frame(c.n - 2)>>
                            ELSE [rest EXCEPT ![Len(rest)] = [c EXCEPT !.b = v, !.pc = "add"]]
                /\ UNCHANGED <<fout, sfpc>>
        /\ UNCHANGED <<fibCall, fn, fdefault, fexc, flog>>

\* mutant: the base case returns 1
FibBaseValue_One(k) == 1

\* return n
FibBaseValue(k) == k

\* if n <= 1: return n
FibBase ==
    /\ stack # <<>>
    /\ Top.pc = "enter"
    /\ ~FibRaises(Top.n)
    /\ Top.n <= 1
    /\ FibReturn(FibBaseValue(Top.n))

\* return fib(n-1) + fib(n-2): the left call first
FibRecurse ==
    /\ stack # <<>>
    /\ Top.pc = "enter"
    /\ ~FibRaises(Top.n)
    /\ Top.n > 1
    /\ stack' = [stack EXCEPT ![Len(stack)].pc = "first"] \o <<Frame(Top.n - 1)>>
    /\ UNCHANGED <<fibCall, fn, fdefault, sfpc, fexc, fout, flog, fseen>>

\* ... then the sum is returned
FibAdd ==
    /\ stack # <<>>
    /\ Top.pc = "add"
    /\ FibReturn(Top.a + Top.b)

\* except Exception as e: _logger.error(f"safe_fib_error n={n} error={type(e).__name__}")
SafeFibLog ==
    /\ sfpc = "except"
    /\ flog' = Append(flog, [n |-> fn, error |-> fexc])
    /\ sfpc' = "logged"
    /\ UNCHANGED <<fibCall, fn, fdefault, stack, fexc, fout, fseen>>

\* mutant: `if not default`
DefaultIsNone_Falsy(d) == d.tag = "None" \/ d.val = 0

\* default is None
DefaultIsNone(d) == d.tag = "None"

\* if default is None: raise
SafeFibReraise ==
    /\ sfpc = "logged"
    /\ DefaultIsNone(fdefault)
    /\ sfpc' = "raised"
    /\ UNCHANGED <<fibCall, fn, fdefault, stack, fexc, fout, flog, fseen>>

\* return default
SafeFibDefault ==
    /\ sfpc = "logged"
    /\ ~DefaultIsNone(fdefault)
    /\ fout' = fdefault.val
    /\ fexc' = "none"
    /\ sfpc' = "returned"
    /\ UNCHANGED <<fibCall, fn, fdefault, stack, flog, fseen>>

\* ==================================================================== timer
\* timing.py: `with timer(label): <block>`. Time is counted in ticks; only the
\* block takes time.
VARIABLES
    tmLabel,    \* the label: None, or a string
    tmPc,       \* "idle", "start", "block", "except", "reraise", "else", "exited", "raised"
    tmStart,    \* start = time.perf_counter()
    tmNow,      \* the clock
    tmBlock,    \* how the block ended: "running", "ok" or the kind of its exception
    tmExc,      \* the exception in flight or propagated ("none" if none)
    tmLog,      \* the lines written by _logger.error
    tmOut       \* the lines printed

timerVars == <<tmLabel, tmPc, tmStart, tmNow, tmBlock, tmExc, tmLog, tmOut>>

Str(v) == [tag |-> "str", val |-> v]

TimerEntry(l, pc, t) ==
    /\ tmLabel = l
    /\ tmPc = pc
    /\ tmStart = 0
    /\ tmNow = t
    /\ tmBlock = "running"
    /\ tmExc = "none"
    /\ tmLog = <<>>
    /\ tmOut = <<>>

TimerIdle == TimerEntry(None, "idle", 0)

\* the exceptions a block may raise; KeyboardInterrupt derives from
\* BaseException only
ExceptionKinds == {"ValueError", "KeyError"}

BaseOnlyKinds == {"KeyboardInterrupt"}

\* isinstance(e, Exception)
IsException(kind) == kind \in ExceptionKinds

\* label or alt: None and the empty string are falsy
LabelOr(l, alt) == IF l.tag = "None" THEN alt ELSE IF l.val = "" THEN alt ELSE l.val

\* dur = time.perf_counter() - start
Dur == tmNow - tmStart

\* start = time.perf_counter()
TimerStart ==
    /\ tmPc = "start"
    /\ tmStart' = tmNow
    /\ tmPc' = "block"
    /\ UNCHANGED <<tmLabel, tmNow, tmBlock, tmExc, tmLog, tmOut>>

\* the block runs for a while
TimerTick ==
    /\ tmPc = "block"
    /\ Dur < MaxBlockTicks
    /\ tmNow' = tmNow + 1
    /\ UNCHANGED <<tmLabel, tmPc, tmStart, tmBlock, tmExc, tmLog, tmOut>>

\* yield returns normally: the else clause is next
BlockReturns ==
    /\ tmPc = "block"
    /\ tmBlock' = "ok"
    /\ tmPc' = "else"
    /\ UNCHANGED <<tmLabel, tmStart, tmNow, tmExc, tmLog, tmOut>>

\* the block raises: `except Exception as e` takes it if it is an Exception,
\* otherwise it leaves the generator at once
BlockRaises(kind) ==
    /\ tmPc = "block"
    /\ tmBlock' = kind
    /\ tmExc' = kind
    /\ tmPc' = IF IsException(kind) THEN "except" ELSE "raised"
    /\ UNCHANGED <<tmLabel, tmStart, tmNow, tmLog, tmOut>>

\* _logger.error(f"label={label or 'n/a'} error={type(e).__name__} duration_s={dur:.4f}")
TimerLog ==
    /\ tmPc = "except"
    /\ tmLog' = Append(tmLog, [label |-> LabelOr(tmLabel, "n/a"), error |-> tmExc,
                               duration_s |-> Dur])
    /\ tmPc' = "reraise"
    /\ UNCHANGED <<tmLabel, tmStart, tmNow, tmBlock, tmExc, tmOut>>

\* mutant: the handler ends without `raise`
TimerReraise_Swallow ==
    /\ tmPc = "reraise"
    /\ tmExc' = "none"
    /\ tmPc' = "exited"
    /\ UNCHANGED <<tmLabel, tmStart, tmNow, tmBlock, tmLog, tmOut>>

\* raise
TimerReraise ==
    /\ tmPc = "reraise"
    /\ tmPc' = "raised"
    /\ UNCHANGED <<tmLabel, tmStart, tmNow, tmBlock, tmExc, tmLog, tmOut>>

\* else: print(f"{label or 'block'} {dur:.4f}s")
TimerPrint ==
    /\ tmPc = "else"
    /\ tmOut' = Append(tmOut, [label |-> LabelOr(tmLabel, "block"), duration |-> Dur])
    /\ tmPc' = "exited"
    /\ UNCHANGED <<tmLabel, tmStart, tmNow, tmBlock, tmExc, tmLog>>

\* =================================================================== config
\* config.py: env_bool, env_float, env_int. A string is the sequence of its
\* characters; os.getenv(key) is None when the key is missing.
VARIABLES
    cfgFn,      \* "none", "env_bool", "env_float" or "env_int"
    cfgVal,     \* os.getenv(key): None or a string
    cfgDefault, \* the caller's default
    cfgPc,      \* "call", "returned", "raised"
    cfgOut      \* the value returned

cfgVars == <<cfgFn, cfgVal, cfgDefault, cfgPc, cfgOut>>

Bool(b) == [tag |-> "bool", val |-> b]

Float(num, scale) == [tag |-> "float", val |-> <<num, scale>>]

CfgEntry(f, v, d) ==
    /\ cfgFn = f
    /\ cfgVal = v
    /\ cfgDefault = d
    /\ cfgPc = "call"
    /\ cfgOut = None

CfgIdle == CfgEntry("none", None, None)

Digits == {"0", "1"}

\* the characters environment values are made of
Alphabet == Digits \cup {"-", ".", "o", "n", "N", "x"}

\* str.lower, on the characters of Alphabet
Lower(str) == [i \in 1..Len(str) |-> IF str[i] = "N" THEN "n" ELSE str[i]]

\* {"1", "true", "yes", "on"}
TrueWords == {<<"1">>, <<"t", "r", "u", "e">>, <<"y", "e", "s">>, <<"o", "n">>}

\* the digits of a numeric literal: what follows an optional sign
Unsigned(str) == IF str # <<>> /\ str[1] = "-" THEN Tail(str) ELSE str

Negative(str) == str # <<>> /\ str[1] = "-"

Dots(str) == {i \in 1..Len(str) : str[i] = "."}

\* the characters other than the point
RECURSIVE NoDots(_)
NoDots(str) ==
    IF str = <<>> THEN <<>>
    ELSE IF Head(str) = "." THEN NoDots(Tail(str))
    ELSE <<Head(str)>> \o NoDots(Tail(str))

AllDigits(str) == \A i \in 1..Len(str) : str[i] \in Digits

\* the number a sequence of decimal digits denotes
RECURSIVE DigitsValue(_)
DigitsValue(str) ==
    IF str = <<>> THEN 0
    ELSE 10 * DigitsValue(SubSeq(str, 1, Len(str) - 1))
             + (IF str[Len(str)] = "1" THEN 1 ELSE 0)

\* int(val) succeeds: an optional sign and at least one digit
IntParses(str) == Unsigned(str) # <<>> /\ AllDigits(Unsigned(str))

\* float(val) succeeds: an optional sign, digits with at most one point, and at
\* least one digit
FloatParses(str) ==
    /\ Cardinality(Dots(Unsigned(str))) <= 1
    /\ NoDots(Unsigned(str)) # <<>>
    /\ AllDigits(NoDots(Unsigned(str)))

Signed(str, v) == IF Negative(str) THEN 0 - v ELSE v

\* int(val)
IntValue(str) == Item(Signed(str, DigitsValue(Unsigned(str))))

\* float(val): the digits and the number of them after the point
FloatValue(str) ==
    LET u == Unsigned(str)
        scale == IF Dots(u) = {} THEN 0 ELSE Len(u) - (CHOOSE i \in Dots(u) : TRUE)
    IN  Float(Signed(str, DigitsValue(NoDots(u))), scale)

Outcome(pc, out) == [pc |-> pc, out |-> out]

\* env_bool's body
BoolOf(v, d) ==
    IF v.tag = "None" THEN Outcome("returned", d)
    ELSE Outcome("returned", Bool(Lower(v.val) \in TrueWords))

\* env_float's body
FloatOf(v, d) ==
    IF v.tag = "None" THEN Outcome("returned", d)
    ELSE IF FloatParses(v.val) THEN Outcome("returned", FloatValue(v.val))
    ELSE Outcome("returned", d)

\* mutant: no except clause, int's ValueError reaches the caller
IntOf_NoExcept(v, d) ==
    IF v.tag = "None" THEN Outcome("returned", d)
    ELSE IF IntParses(v.val) THEN Outcome("returned", IntValue(v.val))
    ELSE Outcome("raised", None)

\* env_int's body
IntOf(v, d) ==
    IF v.tag = "None" THEN Outcome("returned", d)
    ELSE IF IntParses(v.val) THEN Outcome("returned", IntValue(v.val))
    ELSE Outcome("returned", d)

CfgCall(f, res) ==
    /\ cfgFn = f
    /\ cfgPc = "call"
    /\ cfgPc' = res.pc
    /\ cfgOut' = res.out
    /\ UNCHANGED <<cfgFn, cfgVal, cfgDefault>>

env_bool == CfgCall("env_bool", BoolOf(cfgVal, cfgDefault))

env_float == CfgCall("env_float", FloatOf(cfgVal, cfgDefault))

env_int == CfgCall("env_int", IntOf(cfgVal, cfgDefault))

\* =================================================== the collection history
VARIABLES
    hist    \* what an observer of a pool has seen: the futures in the order they
            \* finished, those finished when as_completed was entered, and the
            \* futures in the order as_completed yielded them

HistIdle == hist = [completed |-> <<>>, early |-> {}, yielded |-> <<>>]

\* ------------------------------------------------- the groups not yet listed
moreVars == <<fibVars, timerVars, cfgVars>>

MoreIdle ==
    /\ FibIdle
    /\ TimerIdle
    /\ CfgIdle

otherThanFib == <<timerVars, cfgVars>>

OtherThanFibIdle == TimerIdle /\ CfgIdle

otherThanTimer == <<fibVars, cfgVars>>

OtherThanTimerIdle == FibIdle /\ CfgIdle

otherThanCfg == <<fibVars, timerVars>>

OtherThanCfgIdle == FibIdle /\ TimerIdle

vars == <<incVars, testVars, pcVars, poolVars, moreVars, hist>>

\* ---- unsafe_increment(n, loops) under every interleaving
InitUnsafe ==
    /\ \E nn \in 0..MaxWorkers, ll \in 0..MaxLoops :
          nn * ll <= MaxIncrements /\ IncEntry("unsafe_increment", nn, ll)
    /\ sched = "any"
    /\ TestIdle
    /\ PCIdle
    /\ PoolIdle
    /\ MoreIdle
    /\ HistIdle

NextUnsafe ==
    \/ MainStep /\ UNCHANGED <<testVars, pcVars, poolVars, moreVars, hist>>
    \/ \E t \in Threads : UnsafeStep(t) /\ UNCHANGED <<testVars, pcVars, poolVars, moreVars, hist>>

SpecUnsafe == InitUnsafe /\ [][NextUnsafe]_vars

\* ---- safe_increment(n, loops) under every interleaving
InitSafe ==
    /\ \E nn \in 0..MaxWorkers, ll \in 0..MaxLoops :
          nn * ll <= MaxIncrements /\ IncEntry("safe_increment", nn, ll)
    /\ sched = "any"
    /\ TestIdle
    /\ PCIdle
    /\ PoolIdle
    /\ MoreIdle
    /\ HistIdle

NextSafe ==
    \/ MainStep /\ UNCHANGED <<testVars, pcVars, poolVars, moreVars, hist>>
    \/ \E t \in Threads : SafeStep(t) /\ UNCHANGED <<testVars, pcVars, poolVars, moreVars, hist>>

SpecSafe == InitSafe /\ [][NextSafe]_vars

\* the same under fair scheduling: the caller and each started worker, when it
\* can take a step, is not passed over forever
FairSpecSafe ==
    /\ SpecSafe
    /\ WF_vars(MainStep /\ UNCHANGED <<testVars, pcVars, poolVars, moreVars, hist>>)
    /\ \A t \in 1..MaxWorkers :
          WF_vars(t \in Threads /\ SafeStep(t)
                      /\ UNCHANGED <<testVars, pcVars, poolVars, moreVars, hist>>)

\* ---- unsafe_increment(n, loops) under two particular interleavings
InitUnsafeSched ==
    /\ \E nn \in 0..MaxWorkers, ll \in 0..MaxLoops :
          nn * ll <= MaxIncrements /\ IncEntry("unsafe_increment", nn, ll)
    /\ sched \in {"lockstep", "serial"}
    /\ TestIdle
    /\ PCIdle
    /\ PoolIdle
    /\ MoreIdle
    /\ HistIdle

NextUnsafeSched ==
    \/ MainStep /\ UNCHANGED <<testVars, pcVars, poolVars, moreVars, hist>>
    \/ \E t \in Threads : Permits(t) /\ UnsafeStep(t) /\ UNCHANGED <<testVars, pcVars, poolVars, moreVars, hist>>

SpecUnsafeSched == InitUnsafeSched /\ [][NextUnsafeSched]_vars

\* ---- test_race_condition: unsafe_increment, then safe_increment, same arguments
InitRace ==
    /\ \E nn \in 2..MaxWorkers, ll \in 1..MaxLoops :
          nn * ll <= MaxIncrements /\ IncEntry("unsafe_increment", nn, ll)
    /\ sched = "any"
    /\ testpc = "unsafe"
    /\ wrong = 0
    /\ right = 0
    /\ PCIdle
    /\ PoolIdle
    /\ MoreIdle
    /\ HistIdle

NextRace ==
    \/ MainStep /\ UNCHANGED <<testVars, pcVars, poolVars, moreVars, hist>>
    \/ \E t \in Threads : UnsafeStep(t) /\ UNCHANGED <<testVars, pcVars, poolVars, moreVars, hist>>
    \/ \E t \in Threads : SafeStep(t) /\ UNCHANGED <<testVars, pcVars, poolVars, moreVars, hist>>
    \/ TestCallSafe /\ UNCHANGED <<pcVars, poolVars, moreVars, hist>>
    \/ TestStoreRight /\ UNCHANGED <<pcVars, poolVars, moreVars, hist>>
    \/ TestAssert /\ UNCHANGED <<pcVars, poolVars, moreVars, hist>>

SpecRace == InitRace /\ [][NextRace]_vars

\* ---- producer_consumer(num_items) under every interleaving
InitPC ==
    /\ \E k \in 0..MaxItems : PCEntry(k)
    /\ IncIdle
    /\ TestIdle
    /\ PoolIdle
    /\ MoreIdle
    /\ HistIdle

NextPC ==
    \/ PCStartProducer /\ UNCHANGED <<incVars, testVars, poolVars, moreVars, hist>>
    \/ PCStartConsumer /\ UNCHANGED <<incVars, testVars, poolVars, moreVars, hist>>
    \/ PCJoinProducer /\ UNCHANGED <<incVars, testVars, poolVars, moreVars, hist>>
    \/ PCJoinConsumer /\ UNCHANGED <<incVars, testVars, poolVars, moreVars, hist>>
    \/ PCReturn /\ UNCHANGED <<incVars, testVars, poolVars, moreVars, hist>>
    \/ ProducerPut /\ UNCHANGED <<incVars, testVars, poolVars, moreVars, hist>>
    \/ ProducerSentinel /\ UNCHANGED <<incVars, testVars, poolVars, moreVars, hist>>
    \/ ConsumerGet /\ UNCHANGED <<incVars, testVars, poolVars, moreVars, hist>>
    \/ ConsumerStop /\ UNCHANGED <<incVars, testVars, poolVars, moreVars, hist>>
    \/ ConsumerAppend /\ UNCHANGED <<incVars, testVars, poolVars, moreVars, hist>>
    \/ ConsumerTaskDone /\ UNCHANGED <<incVars, testVars, poolVars, moreVars, hist>>

SpecPC == InitPC /\ [][NextPC]_vars

\* the same, with each of the three threads scheduled fairly: a thread that
\* can take a step is not passed over forever
FairSpecPC ==
    /\ SpecPC
    /\ WF_vars(PCMain /\ UNCHANGED <<incVars, testVars, poolVars, moreVars, hist>>)
    /\ WF_vars(Producer /\ UNCHANGED <<incVars, testVars, poolVars, moreVars, hist>>)
    /\ WF_vars(Consumer /\ UNCHANGED <<incVars, testVars, poolVars, moreVars, hist>>)

\* ---- parallel_sleep(n, duration)
InitSleep ==
    /\ PoolEntry("parallel_sleep")
    /\ pn \in 0..MaxTasks
    /\ duration \in -1..MaxDuration
    /\ nums = <<>>
    /\ max_workers = 0
    /\ cpu_count = 0
    /\ IncIdle
    /\ TestIdle
    /\ PCIdle
    /\ MoreIdle
    /\ HistIdle

NextSleep ==
    \/ PoolEnter /\ UNCHANGED <<incVars, testVars, pcVars, moreVars, hist>>
    \/ PoolSubmit /\ UNCHANGED <<incVars, testVars, pcVars, moreVars, hist>>
    \/ WorkerTake /\ UNCHANGED <<incVars, testVars, pcVars, moreVars, hist>>
    \/ \E k \in 1..Len(futures) : SleepTaskReturn(k) /\ UNCHANGED <<incVars, testVars, pcVars, moreVars, hist>>
    \/ \E k \in 1..Len(futures) : SleepTaskRaise(k) /\ UNCHANGED <<incVars, testVars, pcVars, moreVars, hist>>
    \/ Tick /\ UNCHANGED <<incVars, testVars, pcVars, moreVars, hist>>
    \/ AsCompletedEnter /\ UNCHANGED <<incVars, testVars, pcVars, moreVars, hist>>
    \/ \E k \in 1..Len(futures) : YieldSnapshot(k) /\ UNCHANGED <<incVars, testVars, pcVars, moreVars, hist>>
    \/ YieldWaited /\ UNCHANGED <<incVars, testVars, pcVars, moreVars, hist>>
    \/ LoopBody /\ UNCHANGED <<incVars, testVars, pcVars, moreVars, hist>>
    \/ PoolExit /\ UNCHANGED <<incVars, testVars, pcVars, moreVars, hist>>
    \/ WorkerExit /\ UNCHANGED <<incVars, testVars, pcVars, moreVars, hist>>
    \/ PoolReturn /\ UNCHANGED <<incVars, testVars, pcVars, moreVars, hist>>

SpecSleep == InitSleep /\ [][NextSleep]_vars

\* ---- run_process_pool(nums, max_workers)
\* the values nums is built from: -1 makes fib raise
FibInputs == {-1, 3, 4}

\* what os.cpu_count() may return (0: None)
CpuCounts == {0, 1}

SeqsUpTo(S, len) == UNION {[1..m -> S] : m \in 0..len}

InitProc ==
    /\ PoolEntry("run_process_pool")
    /\ nums \in SeqsUpTo(FibInputs, MaxInputs)
    /\ max_workers \in 0..MaxPool
    \* os.cpu_count() is called only when max_workers is falsy
    /\ cpu_count \in (IF max_workers = 0 THEN CpuCounts ELSE {0})
    /\ pn = 0
    /\ duration = 0
    /\ IncIdle
    /\ TestIdle
    /\ PCIdle
    /\ MoreIdle
    /\ HistIdle

NextProc ==
    \/ PoolEnter /\ UNCHANGED <<incVars, testVars, pcVars, moreVars, hist>>
    \/ PoolSubmit /\ UNCHANGED <<incVars, testVars, pcVars, moreVars, hist>>
    \/ WorkerTake /\ UNCHANGED <<incVars, testVars, pcVars, moreVars, hist>>
    \/ \E k \in 1..Len(futures) : FibTaskEnd(k) /\ UNCHANGED <<incVars, testVars, pcVars, moreVars, hist>>
    \/ AsCompletedEnter /\ UNCHANGED <<incVars, testVars, pcVars, moreVars, hist>>
    \/ \E k \in 1..Len(futures) : YieldSnapshot(k) /\ UNCHANGED <<incVars, testVars, pcVars, moreVars, hist>>
    \/ YieldWaited /\ UNCHANGED <<incVars, testVars, pcVars, moreVars, hist>>
    \/ LoopBody /\ UNCHANGED <<incVars, testVars, pcVars, moreVars, hist>>
    \/ PoolExit /\ UNCHANGED <<incVars, testVars, pcVars, moreVars, hist>>
    \/ WorkerExit /\ UNCHANGED <<incVars, testVars, pcVars, moreVars, hist>>
    \/ PoolReturn /\ UNCHANGED <<incVars, testVars, pcVars, moreVars, hist>>

SpecProc == InitProc /\ [][NextProc]_vars

\* ---- both pools: parallel_sleep(n, duration) or run_process_pool(nums, max_workers)
\* the durations tried: one that makes time.sleep raise, none, and a positive one
PoolDurations == {-1, 0, MaxDuration}

\* the values nums is built from here: -1 makes fib raise
PoolFibInputs == {-1, 3}

InitPools ==
    /\ \/ /\ PoolEntry("parallel_sleep")
          /\ pn \in 0..MaxBatch
          /\ duration \in PoolDurations
          /\ nums = <<>>
          /\ max_workers = 0
       \/ /\ PoolEntry("run_process_pool")
          /\ nums \in SeqsUpTo(PoolFibInputs, MaxBatch)
          /\ max_workers \in 1..MaxPool
          /\ pn = 0
          /\ duration = 0
    /\ cpu_count = 0
    /\ IncIdle
    /\ TestIdle
    /\ PCIdle
    /\ MoreIdle
    /\ HistIdle

NextPools ==
    \/ NextSleep
    \/ NextProc

SpecPools == InitPools /\ [][NextPools]_vars

\* ---- both pools, with the history of what finished and what was yielded
\* future k has finished
Completes(k) == hist' = [hist EXCEPT !.completed = Append(@, k)]

\* as_completed has yielded the future now in cur
Yields == hist' = [hist EXCEPT !.yielded = Append(@, cur')]

NextOrder ==
    \/ PoolEnter /\ UNCHANGED <<incVars, testVars, pcVars, moreVars, hist>>
    \/ PoolSubmit /\ UNCHANGED <<incVars, testVars, pcVars, moreVars, hist>>
    \/ WorkerTake /\ UNCHANGED <<incVars, testVars, pcVars, moreVars, hist>>
    \/ \E k \in 1..Len(futures) :
          SleepTaskReturn(k) /\ Completes(k) /\ UNCHANGED <<incVars, testVars, pcVars, moreVars>>
    \/ \E k \in 1..Len(futures) :
          SleepTaskRaise(k) /\ Completes(k) /\ UNCHANGED <<incVars, testVars, pcVars, moreVars>>
    \/ \E k \in 1..Len(futures) :
          FibTaskEnd(k) /\ Completes(k) /\ UNCHANGED <<incVars, testVars, pcVars, moreVars>>
    \/ Tick /\ UNCHANGED <<incVars, testVars, pcVars, moreVars, hist>>
    \/ /\ AsCompletedEnter
       /\ hist' = [hist EXCEPT !.early = Finished]
       /\ UNCHANGED <<incVars, testVars, pcVars, moreVars>>
    \/ \E k \in 1..Len(futures) :
          YieldSnapshot(k) /\ Yields /\ UNCHANGED <<incVars, testVars, pcVars, moreVars>>
    \/ YieldWaited /\ Yields /\ UNCHANGED <<incVars, testVars, pcVars, moreVars>>
    \/ LoopBody /\ UNCHANGED <<incVars, testVars, pcVars, moreVars, hist>>
    \/ PoolExit /\ UNCHANGED <<incVars, testVars, pcVars, moreVars, hist>>
    \/ WorkerExit /\ UNCHANGED <<incVars, testVars, pcVars, moreVars, hist>>
    \/ PoolReturn /\ UNCHANGED <<incVars, testVars, pcVars, moreVars, hist>>

SpecOrder == InitPools /\ [][NextOrder]_vars

\* ---- fib(n) or safe_fib(n, default) for a small n
FibArgs == (0 - MaxNegArg)..MaxFibArg

Defaults == {None, Item(0), Item(MaxFibArg)}

InitFib ==
    /\ \E f \in {"fib", "safe_fib"} : \E k \in FibArgs :
          \E d \in (IF f = "fib" THEN {None} ELSE Defaults) : FibEntry(f, k, d)
    /\ IncIdle
    /\ TestIdle
    /\ PCIdle
    /\ PoolIdle
    /\ HistIdle
    /\ OtherThanFibIdle

NextFib ==
    \/ FibCheck /\ UNCHANGED <<incVars, testVars, pcVars, poolVars, hist, otherThanFib>>
    \/ FibBase /\ UNCHANGED <<incVars, testVars, pcVars, poolVars, hist, otherThanFib>>
    \/ FibRecurse /\ UNCHANGED <<incVars, testVars, pcVars, poolVars, hist, otherThanFib>>
    \/ FibAdd /\ UNCHANGED <<incVars, testVars, pcVars, poolVars, hist, otherThanFib>>
    \/ SafeFibLog /\ UNCHANGED <<incVars, testVars, pcVars, poolVars, hist, otherThanFib>>
    \/ SafeFibReraise /\ UNCHANGED <<incVars, testVars, pcVars, poolVars, hist, otherThanFib>>
    \/ SafeFibDefault /\ UNCHANGED <<incVars, testVars, pcVars, poolVars, hist, otherThanFib>>

SpecFib == InitFib /\ [][NextFib]_vars

\* ---- with timer(label): a block that returns or raises
Labels == {None, Str(""), Str("io")}

InitTimer ==
    /\ \E l \in Labels : \E t \in 0..1 : TimerEntry(l, "start", t)
    /\ IncIdle
    /\ TestIdle
    /\ PCIdle
    /\ PoolIdle
    /\ HistIdle
    /\ OtherThanTimerIdle

NextTimer ==
    \/ TimerStart /\ UNCHANGED <<incVars, testVars, pcVars, poolVars, hist, otherThanTimer>>
    \/ TimerTick /\ UNCHANGED <<incVars, testVars, pcVars, poolVars, hist, otherThanTimer>>
    \/ BlockReturns /\ UNCHANGED <<incVars, testVars, pcVars, poolVars, hist, otherThanTimer>>
    \/ \E kind \in ExceptionKinds \cup BaseOnlyKinds :
          BlockRaises(kind) /\ UNCHANGED <<incVars, testVars, pcVars, poolVars, hist, otherThanTimer>>
    \/ TimerLog /\ UNCHANGED <<incVars, testVars, pcVars, poolVars, hist, otherThanTimer>>
    \/ TimerReraise /\ UNCHANGED <<incVars, testVars, pcVars, poolVars, hist, otherThanTimer>>
    \/ TimerPrint /\ UNCHANGED <<incVars, testVars, pcVars, poolVars, hist, otherThanTimer>>

SpecTimer == InitTimer /\ [][NextTimer]_vars

\* ---- env_bool / env_float / env_int on a key that is missing or holds a string
EnvValues == {None} \cup {Str(str) : str \in SeqsUpTo(Alphabet, MaxValLen)}

CfgDefaults(f) ==
    IF f = "env_bool" THEN {Bool(TRUE), Bool(FALSE)}
    ELSE IF f = "env_float" THEN {Float(0, 0), Float(MaxValLen, 1)}
    ELSE {Item(0), Item(MaxValLen)}

InitCfg ==
    /\ \E f \in {"env_bool", "env_float", "env_int"} : \E v \in EnvValues :
          \E d \in CfgDefaults(f) : CfgEntry(f, v, d)
    /\ IncIdle
    /\ TestIdle
    /\ PCIdle
    /\ PoolIdle
    /\ HistIdle
    /\ OtherThanCfgIdle

NextCfg ==
    \/ env_bool /\ UNCHANGED <<incVars, testVars, pcVars, poolVars, hist, otherThanCfg>>
    \/ env_float /\ UNCHANGED <<incVars, testVars, pcVars, poolVars, hist, otherThanCfg>>
    \/ env_int /\ UNCHANGED <<incVars, testVars, pcVars, poolVars, hist, otherThanCfg>>

SpecCfg == InitCfg /\ [][NextCfg]_vars

\* ---- run_process_pool(nums) with max_workers not given, on a machine whose
\* os.cpu_count() is None (0 here) or 1..MaxCores
InitDefaultPool ==
    /\ PoolEntry("run_process_pool")
    /\ nums \in SeqsUpTo(PoolFibInputs, MaxBatch)
    /\ max_workers = 0
    /\ cpu_count \in 0..MaxCores
    /\ pn = 0
    /\ duration = 0
    /\ IncIdle
    /\ TestIdle
    /\ PCIdle
    /\ MoreIdle
    /\ HistIdle

SpecDefaultPool == InitDefaultPool /\ [][NextProc]_vars

\* ================================================================== claims
RECURSIVE SumTo(_, _)
SumTo(f, k) == IF k = 0 THEN 0 ELSE f[k] + SumTo(f, k - 1)

\* iterations whose store has happened, over all threads
StoresDone ==
    SumTo([t \in Threads |-> iter[t] + (IF tpc[t] = "release" THEN 1 ELSE 0)], n)

Returned == mpc = "returned"

\* C1: safe_increment(n, loops) returns exactly n * loops under every
\* interleaving, and at every moment the counter equals the number of
\* increments performed so far under the lock: none is lost.
C1_SafeExact ==
    /\ counter = StoresDone
    /\ Returned => ret = n * loops

C1_Witness ==
    /\ incFn = "safe_increment"
    /\ Returned
    /\ n = MaxWorkers
    /\ loops = MaxLoops
    /\ ret = MaxWorkers * MaxLoops

\* C2: the value unsafe_increment(n, loops) returns is at most n * loops under
\* every interleaving of the read, yield and write steps; at every moment the
\* counter is at most the number of writes performed so far.
C2_UnsafeAtMost ==
    /\ counter <= StoresDone
    /\ Returned => ret <= n * loops

C2_Witness ==
    /\ incFn = "unsafe_increment"
    /\ Returned
    /\ n >= 2
    /\ loops >= 1
    /\ ret < n * loops

\* C3: for every n >= 2 and loops >= 1 the lockstep interleaving (all read, all
\* yield, all write) runs unsafe_increment to its return with a value strictly
\* below n * loops, and the serial interleaving runs it to its return with
\* exactly n * loops; neither interleaving ever gets stuck before the return.
C3_RaceBothWays ==
    /\ ~Returned => ENABLED NextUnsafeSched
    /\ (Returned /\ n >= 2 /\ loops >= 1 /\ sched = "lockstep") => ret < n * loops
    /\ (Returned /\ n >= 2 /\ loops >= 1 /\ sched = "serial") => ret = n * loops

C3_Witness ==
    /\ Returned
    /\ sched = "lockstep"
    /\ n = MaxWorkers
    /\ loops = MaxLoops
    /\ ret = MaxLoops

TestDone == testpc \in {"assert", "passed", "failed"}

PCReturned == pcm = "returned"

\* how many entries of the sequence s equal v
RECURSIVE Count(_, _)
Count(s, v) == IF s = <<>> THEN 0 ELSE (IF Head(s) = v THEN 1 ELSE 0) + Count(Tail(s), v)

\* C5: the list producer_consumer(num_items) returns holds, as a multiset,
\* exactly the values 2*i for i in 0..num_items-1, each once, under every
\* interleaving of producer and consumer; and no value is ever in `results`
\* twice or from outside that set.
C5_ExactlyOnce ==
    /\ \A k \in 1..Len(results) :
          /\ \E i \in 0..(num_items - 1) : results[k] = 2 * i
          /\ Count(results, results[k]) = 1
    /\ PCReturned =>
          /\ Len(pcret) = num_items
          /\ \A i \in 0..(num_items - 1) : Count(pcret, 2 * i) = 1

C5_Witness ==
    /\ PCReturned
    /\ num_items = MaxItems
    /\ Len(pcret) = MaxItems
    /\ Count(pcret, 0) = 1

\* the values the consumer has dequeued and finished testing
Tested == IF cpc = "test" THEN SubSeq(dequeued, 1, Len(dequeued) - 1) ELSE dequeued

RECURSIVE Doubled(_)
Doubled(s) ==
    IF s = <<>> THEN <<>>
    ELSE IF Head(s).tag = "None" THEN Doubled(Tail(s))
    ELSE <<2 * Head(s).val>> \o Doubled(Tail(s))

\* C6: the consumer has stopped only if the last value it dequeued is the
\* sentinel, and once it has dequeued the sentinel it stops without another
\* dequeue (the sentinel is the last value dequeued and the consumer is at its
\* test or has ended); every data value dequeued and tested, 0 included, has
\* been doubled and appended and the sentinel has not: `results` is the
\* doubling of the data values tested.
C6_StopsAtSentinel ==
    /\ cpc = "done" => (dequeued # <<>> /\ dequeued[Len(dequeued)] = None)
    /\ \A k \in 1..Len(dequeued) :
          dequeued[k] = None => (k = Len(dequeued) /\ cpc \in {"test", "done"})
    /\ results = Doubled(Tested)

C6_Witness ==
    /\ cpc = "done"
    /\ num_items >= 2
    /\ dequeued[1] = Item(0)
    /\ dequeued[Len(dequeued)] = None
    /\ Len(results) = num_items

\* C7: under fair scheduling producer_consumer always returns, for every
\* num_items (0 included); it has returned only when both threads have ended;
\* and once it has returned `results` no longer changes.
C7_ReturnsAfterBoth ==
    /\ <>PCReturned
    /\ [](PCReturned => (ppc = "done" /\ cpc = "done" /\ pcret = results))
    /\ [][PCReturned => results' = results]_vars

C7_Witness ==
    /\ PCReturned
    /\ num_items = 0
    /\ pcret = <<>>
    /\ ppc = "done"
    /\ cpc = "done"

PoolReturned == plpc = "returned"

\* how many pairs of the sequence s have the first component v
RECURSIVE CountKey(_, _)
CountKey(s, v) ==
    IF s = <<>> THEN 0 ELSE (IF Head(s)[1] = v THEN 1 ELSE 0) + CountKey(Tail(s), v)

\* C8: when no task fails (duration >= 0), parallel_sleep(n, duration) with
\* n >= 1 does not raise, and the list it returns has exactly n pairs whose
\* indices are 0..n-1, each once, whatever the order of completion; no index is
\* ever in `results` twice.
C8_EveryIndexOnce ==
    /\ \A k \in 1..Len(presults) : CountKey(presults, presults[k][1]) = 1
    /\ (poolFn = "parallel_sleep" /\ pn >= 1 /\ duration >= 0) => plpc # "raised"
    /\ (poolFn = "parallel_sleep" /\ PoolReturned /\ duration >= 0) =>
          /\ Len(pret) = pn
          /\ \A i \in 0..(pn - 1) : CountKey(pret, i) = 1

C8_Witness ==
    /\ poolFn = "parallel_sleep"
    /\ PoolReturned
    /\ pn = MaxTasks
    /\ duration = MaxDuration
    /\ Len(pret) = MaxTasks
    /\ pret[1][1] # 0

IdleWorkers == {w \in WorkerIds : workers[w] = "idle"}

\* C9: parallel_sleep(n, duration) builds a pool of exactly n workers; a task
\* that is queued always has an idle worker to take it and every task starts at
\* time 0, before any other has finished its sleep; each elapsed reading is the
\* task's own sleep, duration (below the test's limit of 0.5 s for n = 4,
\* duration = 0.2 s), and the call returns at time duration, not n * duration.
C9_SleepsOverlap ==
    /\ (poolFn = "parallel_sleep" /\ plpc \notin {"enter", "raised"}) => Len(workers) = pn
    /\ Cardinality(Pending) <= Cardinality(IdleWorkers)
    /\ \A k \in 1..Len(futures) :
          /\ futures[k].st # "pending" => futures[k].start = 0
          /\ (futures[k].st = "finished" /\ futures[k].ok) => futures[k].val = duration
    /\ \A k \in 1..Len(presults) :
          /\ presults[k][2] = duration
          /\ (pn = TestN /\ duration = TestDuration) => presults[k][2] < TestLimit
    /\ (poolFn = "parallel_sleep" /\ PoolReturned /\ duration >= 0) => now = duration

C9_Witness ==
    /\ poolFn = "parallel_sleep"
    /\ PoolReturned
    /\ pn = TestN
    /\ duration = TestDuration
    /\ now = TestDuration
    /\ Len(pret) = TestN
    /\ \A k \in 1..Len(pret) : pret[k][2] = TestDuration

\* sorted(pairs, key=lambda x: x[0]): a stable sort by the first component
RECURSIVE InsertByKey(_, _)
InsertByKey(x, s) ==
    IF s = <<>> THEN <<x>>
    ELSE IF x[1] < Head(s)[1] THEN <<x>> \o s
    ELSE <<Head(s)>> \o InsertByKey(x, Tail(s))

RECURSIVE SortedByKey(_)
SortedByKey(s) ==
    IF s = <<>> THEN <<>>
    ELSE InsertByKey(s[Len(s)], SortedByKey(SubSeq(s, 1, Len(s) - 1)))

\* [(n, fib(n)) for n in nums], with the single-threaded fib
Reference == [i \in 1..Len(nums) |-> <<nums[i], fib(nums[i])>>]

NoTaskFails == \A i \in 1..Len(nums) : ~FibRaises(nums[i])

\* every future not queued has been given to one worker of the pool, and no
\* worker holds two running tasks
OneWorkerEach ==
    /\ \A k \in 1..Len(futures) :
          IF futures[k].st = "pending" THEN futures[k].worker = 0
          ELSE futures[k].worker \in WorkerIds
    /\ \A j, k \in Running : futures[j].worker = futures[k].worker => j = k

\* C10 as stated: when no task fails, the result sorted by input equals
\* [(n, fib(n)) for n in nums].
C10_SortedIsReference ==
    (poolFn = "run_process_pool" /\ PoolReturned /\ NoTaskFails) =>
        SortedByKey(pret) = Reference

\* C10 as amended: when no task fails, every element of nums is given to
\* exactly one worker and the call returns one pair (n, fib(n)) per element;
\* sorted by input the result equals [(n, fib(n)) for n in nums] sorted by
\* input, for every pool size and every completion order.
C10_SortedIsSortedReference ==
    /\ OneWorkerEach
    /\ (poolFn = "run_process_pool" /\ NoTaskFails) => plpc # "raised"
    /\ (poolFn = "run_process_pool" /\ PoolReturned /\ NoTaskFails) =>
          /\ Len(pret) = Len(nums)
          /\ \A k \in 1..Len(pret) : pret[k][2] = fib(pret[k][1])
          /\ SortedByKey(pret) = SortedByKey(Reference)

C10_Witness ==
    /\ poolFn = "run_process_pool"
    /\ PoolReturned
    /\ NoTaskFails
    /\ Len(nums) = MaxInputs
    /\ Len(pret) = MaxInputs
    /\ pret[1][1] # nums[1]
    /\ Len(workers) >= 2

\* whether the task with argument a fails: time.sleep of a negative duration,
\* fib of a negative number
TaskFails(a) == IF poolFn = "parallel_sleep" THEN duration < 0 ELSE FibRaises(a)

OkFutures == {k \in 1..Len(futures) : ~TaskFails(futures[k].arg)}

PoolDone == plpc \in {"returned", "raised"}

\* C11: a task that fails in either pool never aborts the batch: the call
\* raises only when the executor cannot be built (before any task exists), it
\* never gets stuck before its end, no pair in `results` belongs to a failing
\* argument, and the list returned has exactly one pair per task that did not
\* fail, the failures having been logged one by one.
C11_FailuresExcluded ==
    /\ plpc = "raised" => (futures = <<>> /\ PoolSize < 1)
    /\ ~PoolDone => ENABLED NextPools
    /\ \A j \in 1..Len(presults) : ~TaskFails(presults[j][1])
    /\ PoolReturned =>
          /\ Len(futures) = Len(TaskArgs)
          /\ Len(pret) = Cardinality(OkFutures)
          /\ Len(perrors) = Len(futures) - Cardinality(OkFutures)
          /\ \A k \in OkFutures :
                CountKey(pret, futures[k].arg) =
                    Cardinality({j \in OkFutures : futures[j].arg = futures[k].arg})

C11_Witness ==
    /\ poolFn = "run_process_pool"
    /\ PoolReturned
    /\ Len(nums) = MaxBatch
    /\ FibRaises(nums[1])
    /\ Len(perrors) = 1
    /\ Len(pret) = MaxBatch - 1

FibDone == fibCall # "none" /\ sfpc \in {"returned", "raised"}

\* C12: fib raises for every negative input and for no other; every call fib(k)
\* that returns gives 0 for 0, 1 for 1, and for k >= 2 the sum of what the calls
\* fib(k-1) and fib(k-2) returned; fib(k) returns one value only and a call
\* never stops before its end.
C12_FibRecurrence ==
    fibCall = "fib" =>
        /\ sfpc = "raised" <=> (fn < 0 /\ stack = <<>>)
        /\ sfpc = "raised" => fexc = "ValueError" /\ fseen = {}
        /\ sfpc = "returned" => <<fn, fout>> \in fseen /\ fout = fib(fn)
        /\ ~FibDone => ENABLED NextFib
        /\ \A p \in fseen :
              /\ p[1] >= 0
              /\ p[1] = 0 => p[2] = 0
              /\ p[1] = 1 => p[2] = 1
              /\ p[1] >= 2 => \E x, y \in fseen :
                                 /\ x[1] = p[1] - 1
                                 /\ y[1] = p[1] - 2
                                 /\ p[2] = x[2] + y[2]
              /\ \A r \in fseen : r[1] = p[1] => r[2] = p[2]

C12_Witness ==
    /\ fibCall = "fib"
    /\ fn = MaxFibArg
    /\ sfpc = "returned"
    /\ fout = fib(MaxFibArg - 1) + fib(MaxFibArg - 2)
    /\ fout > MaxFibArg
    /\ \E p \in fseen : p[1] = 0
    /\ \E p \in fseen : p[1] = 1

\* C13: safe_fib(n, default) returns what fib(n) returned whenever fib(n)
\* succeeds, logging nothing; when fib(n) fails it logs the error once, then
\* returns the default if one was given (0 included) and re-raises the same
\* failure if none was given.
C13_SafeFib ==
    (fibCall = "safe_fib" /\ FibDone) =>
        IF FibRaises(fn)
        THEN /\ flog = <<[n |-> fn, error |-> "ValueError"]>>
             /\ fseen = {}
             /\ IF fdefault = None
                THEN sfpc = "raised" /\ fexc = "ValueError"
                ELSE sfpc = "returned" /\ fout = fdefault.val /\ fexc = "none"
        ELSE /\ sfpc = "returned"
             /\ fout = fib(fn)
             /\ <<fn, fout>> \in fseen
             /\ flog = <<>>
             /\ fexc = "none"

C13_Witness ==
    /\ fibCall = "safe_fib"
    /\ fn < 0
    /\ fdefault = Item(0)
    /\ sfpc = "returned"
    /\ fout = 0
    /\ Len(flog) = 1

TimerDone == tmPc \in {"exited", "raised"}

\* the label the caller gave, or alt when none (or an empty one) was given
Shown(alt) == IF tmLabel \in {None, Str("")} THEN alt ELSE tmLabel.val

\* C14: the timer never swallows or alters the block's failure. When the block
\* raises an Exception, label, error kind and duration are logged exactly once,
\* nothing is printed and the same exception reaches the caller; when the block
\* returns, label (or 'block') and duration are printed exactly once and nothing
\* is logged. (An exception that is not an Exception, such as KeyboardInterrupt,
\* also reaches the caller unchanged, with nothing printed and nothing logged.)
C14_TimerPassesFailure ==
    /\ ~TimerDone /\ tmPc # "idle" => ENABLED NextTimer
    /\ Len(tmLog) <= 1
    /\ Len(tmOut) <= 1
    /\ tmPc = "exited" =>
          /\ tmBlock = "ok"
          /\ tmExc = "none"
          /\ tmOut = <<[label |-> Shown("block"), duration |-> tmNow - tmStart]>>
          /\ tmLog = <<>>
    /\ tmPc = "raised" =>
          /\ tmBlock \notin {"ok", "running"}
          /\ tmExc = tmBlock
          /\ tmOut = <<>>
          /\ IF tmBlock \in ExceptionKinds
             THEN tmLog = <<[label |-> Shown("n/a"), error |-> tmBlock,
                             duration_s |-> tmNow - tmStart]>>
             ELSE tmLog = <<>>
    /\ tmBlock = "ok" => tmPc \in {"else", "exited"}
    /\ tmBlock \notin {"ok", "running"} => tmPc \in {"except", "reraise", "raised"}

C14_Witness ==
    /\ tmPc = "raised"
    /\ tmLabel = Str("io")
    /\ tmBlock = "ValueError"
    /\ tmStart = 1
    /\ tmNow = 1 + MaxBlockTicks
    /\ Len(tmLog) = 1

CfgDone == cfgFn # "none" /\ cfgPc # "call"

\* the words commonly read as false
FalseWords == {<<"0">>, <<"f", "a", "l", "s", "e">>, <<"n", "o">>, <<"o", "f", "f">>}

\* the value is not a recognised value of the type the getter asks for
Malformed ==
    /\ cfgVal # None
    /\ IF cfgFn = "env_bool" THEN Lower(cfgVal.val) \notin TrueWords \cup FalseWords
       ELSE IF cfgFn = "env_int" THEN ~IntParses(cfgVal.val)
       ELSE ~FloatParses(cfgVal.val)

\* C15 as stated: each getter returns the caller's default whenever the key is
\* missing or its value is malformed, and never raises.
C15_DefaultOnMalformed ==
    CfgDone =>
        /\ cfgPc = "returned"
        /\ (cfgVal = None \/ Malformed) => cfgOut = cfgDefault

\* C15: no getter raises; each returns the caller's default when the key is
\* missing; env_int and env_float return the default for a value that does not
\* parse and the parsed number otherwise; env_bool never returns the default
\* for a value that is present: it returns True for "1", "true", "yes", "on" in
\* any case and False for every other value, malformed ones included.
C15_DefaultOnMissing ==
    CfgDone =>
        /\ cfgPc = "returned"
        /\ cfgVal = None => cfgOut = cfgDefault
        /\ (cfgVal # None /\ cfgFn = "env_bool") =>
              cfgOut = Bool(Lower(cfgVal.val) \in TrueWords)
        /\ (cfgVal # None /\ cfgFn = "env_int") =>
              IF Malformed THEN cfgOut = cfgDefault
              ELSE cfgOut.tag = "int" /\ cfgOut = IntValue(cfgVal.val)
        /\ (cfgVal # None /\ cfgFn = "env_float") =>
              IF Malformed THEN cfgOut = cfgDefault
              ELSE cfgOut.tag = "float" /\ cfgOut = FloatValue(cfgVal.val)

C15_Witness ==
    /\ cfgFn = "env_bool"
    /\ cfgVal = Str(<<"x">>)
    /\ cfgDefault = Bool(TRUE)
    /\ cfgPc = "returned"
    /\ cfgOut = Bool(FALSE)

\* thread t is between acquiring and releasing the lock
InCritical(t) == tpc[t] \in {"load", "store", "release"}

\* C16: in safe_increment at most one worker is between acquiring and releasing
\* the lock; the lock is held by exactly that worker and by nobody outside the
\* guarded section; and while it is held the counter moves by one increment
\* only: it is the number of finished iterations until the holder's store, and
\* one more from the store to the release.
C16_MutualExclusion ==
    incFn = "safe_increment" =>
        /\ Cardinality({t \in Threads : InCritical(t)}) <= 1
        /\ \A t \in Threads : InCritical(t) <=> lock = t
        /\ lock = 0 => counter = SumTo(iter, n)
        /\ \A t \in Threads :
              lock = t => counter = SumTo(iter, n) + (IF tpc[t] = "release" THEN 1 ELSE 0)

C16_Witness ==
    /\ incFn = "safe_increment"
    /\ n = MaxWorkers
    /\ \E t, u \in Threads :
          /\ t # u
          /\ lock = t
          /\ tpc[t] = "store"
          /\ tpc[u] = "acquire"
          /\ iter[u] >= 1

\* what the producer enqueues in all: 0, 1, ..., num_items-1 and the sentinel
FullStream == [i \in 1..(num_items + 1) |-> IF i <= num_items THEN Item(i - 1) ELSE None]

\* everything enqueued so far: what was dequeued, then what is in the queue
Enqueued == dequeued \o q

\* C17: the sentinel is enqueued once and only after all num_items items: what
\* was dequeued followed by what is queued is always a prefix of
\* 0, 1, ..., num_items-1, sentinel, as long as the number of puts made, and
\* so nothing follows the sentinel; at the return all of it has been dequeued.
C17_SentinelLast ==
    /\ Len(Enqueued) <= num_items + 1
    /\ Enqueued = SubSeq(FullStream, 1, Len(Enqueued))
    /\ Len(Enqueued) = pidx + (IF ppc = "done" THEN 1 ELSE 0)
    /\ ppc = "done" => pidx = num_items
    /\ Count(Enqueued, None) = (IF ppc = "done" THEN 1 ELSE 0)
    /\ PCReturned => dequeued = FullStream /\ q = <<>>

C17_Witness ==
    /\ num_items = MaxItems
    /\ ppc = "done"
    /\ Len(dequeued) >= 1
    /\ Len(q) >= 2
    /\ q[Len(q)] = None
    /\ Count(q, None) = 1

\* the doubled values in the order of the producer's puts
DoubledInOrder(k) == [i \in 1..k |-> 2 * (i - 1)]

\* C18: the consumer dequeues in exactly the order of the puts, so `results` is
\* always a prefix of 0, 2, ..., 2*(num_items-1), and the list returned is that
\* sequence itself, unsorted.
C18_FifoOrder ==
    /\ dequeued = SubSeq(FullStream, 1, Len(dequeued))
    /\ Len(results) <= num_items
    /\ results = DoubledInOrder(Len(results))
    /\ PCReturned => pcret = DoubledInOrder(num_items)

C18_Witness ==
    /\ PCReturned
    /\ num_items = MaxItems
    /\ pcret[1] = 0
    /\ pcret[MaxItems] = 2 * (MaxItems - 1)
    /\ \A i \in 1..(MaxItems - 1) : pcret[i] < pcret[i + 1]

\* C19: both pools are torn down before the results reach the caller: at the
\* return, with or without failed tasks, every task has been submitted and has
\* finished, the executor is shut down and every worker that was started has
\* exited; nothing is handed to the caller before that.
C19_TornDownAtReturn ==
    /\ PoolReturned =>
          /\ shutdown
          /\ Len(futures) = Len(TaskArgs)
          /\ \A k \in 1..Len(futures) : futures[k].st = "finished"
          /\ \A w \in WorkerIds : workers[w] \in {"absent", "exited"}
          /\ \E w \in WorkerIds : futures # <<>> => workers[w] = "exited"
          /\ Len(pret) + Len(perrors) = Len(futures)
    /\ ~PoolReturned => pret = <<>>

C19_Witness ==
    /\ PoolReturned
    /\ poolFn = "run_process_pool"
    /\ Len(perrors) >= 1
    /\ Len(pret) >= 1
    /\ Cardinality({w \in WorkerIds : workers[w] = "exited"}) = MaxPool

\* the place of future k in the sequence s of futures (0 when it is not there)
Place(s, k) == IF \E i \in 1..Len(s) : s[i] = k
               THEN CHOOSE i \in 1..Len(s) : s[i] = k
               ELSE 0

\* the futures yielded whose loop body has run, in that order, failed ones left out
RECURSIVE Collected(_)
Collected(s) ==
    IF s = <<>> THEN <<>>
    ELSE IF Head(s) # cur /\ futures[Head(s)].ok
         THEN <<Pair(Head(s))>> \o Collected(Tail(s))
         ELSE Collected(Tail(s))

\* the results are the pairs of the futures yielded, in the order of the yields
ResultsFollowYields ==
    /\ presults = Collected(hist.yielded)
    /\ PoolReturned => pret = presults

\* C20 as stated: results are collected in completion order: of two tasks whose
\* results are in the list, the one that completed earlier comes first.
C20_CompletionOrder ==
    /\ ResultsFollowYields
    /\ \A i, j \in 1..Len(hist.yielded) :
          (i < j /\ futures[hist.yielded[i]].ok /\ futures[hist.yielded[j]].ok) =>
              Place(hist.completed, hist.yielded[i]) < Place(hist.completed, hist.yielded[j])

\* C20: results are collected in the order as_completed yields the futures:
\* those already finished when the collection starts come first, in no
\* particular order among themselves, and the others follow in the order in
\* which they complete; so a result that completed earlier precedes one that
\* completed later unless both had completed before the collection started.
C20_CompletionOrderOnceCollecting ==
    /\ ResultsFollowYields
    /\ \A i, j \in 1..Len(hist.yielded) :
          i < j =>
              \/ Place(hist.completed, hist.yielded[i]) < Place(hist.completed, hist.yielded[j])
              \/ hist.yielded[i] \in hist.early /\ hist.yielded[j] \in hist.early

\* a return whose results are in completion order and not in submission order
C20_Witness ==
    /\ PoolReturned
    /\ hist.early = {}
    /\ Len(pret) = Len(futures)
    /\ Len(pret) >= 2
    /\ hist.completed = hist.yielded
    /\ hist.completed[1] # 1
    /\ pret[1] = Pair(hist.completed[1])
    /\ pret[1] # Pair(1)

\* the executor has been built
PoolBuilt == poolFn = "run_process_pool" /\ plpc \notin {"enter", "raised"}

\* C21 as stated: with max_workers not given the pool has as many workers as
\* there are cores, and never fewer than 2, whatever os.cpu_count() reports.
C21_CoresAtLeastTwo ==
    (PoolBuilt /\ max_workers = 0) =>
        /\ cpu_count # 0 => Len(workers) = cpu_count
        /\ Len(workers) >= 2

\* C21: with max_workers not given the executor is always built (never the
\* ValueError of an empty pool); its size is the core count when
\* os.cpu_count() reports one, a single core included, so a one-core machine
\* gets a pool of 1; it is 2 only when the core count is unknown. No more
\* workers than that are ever started.
C21_CoresOrTwoIfUnknown ==
    max_workers = 0 =>
        /\ plpc # "raised"
        /\ PoolBuilt =>
              /\ Len(workers) = (IF cpu_count = 0 THEN 2 ELSE cpu_count)
              /\ Len(workers) >= 1
              /\ Len(workers) < 2 <=> cpu_count = 1
              /\ Cardinality({w \in WorkerIds : workers[w] # "absent"}) <= Len(workers)

C21_Witness ==
    /\ PoolReturned
    /\ max_workers = 0
    /\ cpu_count = 1
    /\ Len(workers) = 1
    /\ workers[1] = "exited"
    /\ Len(nums) = MaxBatch
    /\ Len(pret) = MaxBatch

\* worker t exists and waits for the lock
Waits(t) == t <= n /\ tpc[t] = "acquire"

\* C22: under fair scheduling safe_increment runs to completion: a worker that
\* waits for the lock gets it, for each of its iterations; whoever holds the
\* lock releases it; before the return some step is always possible (no
\* deadlock); the call returns, and only once all n workers have ended and
\* been joined, with the lock free.
C22_SafeCompletes ==
    /\ <>Returned
    /\ \A t \in 1..MaxWorkers : Waits(t) ~> (lock = t)
    /\ \A t \in 1..MaxWorkers : (lock = t) ~> (lock = 0)
    /\ [](~Returned => ENABLED NextSafe)
    /\ [](Returned => /\ lock = 0
                      /\ mi = n + 1
                      /\ \A t \in Threads : tpc[t] = "done" /\ iter[t] = loops)

C22_Witness ==
    /\ incFn = "safe_increment"
    /\ Returned
    /\ n = MaxWorkers
    /\ loops >= 2
    /\ lock = 0
    /\ mi = n + 1
    /\ \A t \in Threads : tpc[t] = "done" /\ iter[t] = loops

\* worker t has read the counter in an iteration after its first
ReadAfterOwnWrite(t) == iter[t] >= 1 /\ tpc[t] \in {"yield", "write"}

\* C23: the race has a floor. Once any worker has written, the counter is at
\* least 1; a worker past its first iteration has read a value of at least 1
\* (its own previous write came before) and so writes at least 2; hence for
\* every n >= 1 and every interleaving unsafe_increment returns at least 1 when
\* loops >= 1 and at least 2 when loops >= 2, and exactly loops when n = 1.
C23_RaceFloor ==
    incFn = "unsafe_increment" =>
        /\ (\E t \in Threads : iter[t] >= 1) => counter >= 1
        /\ \A t \in Threads : ReadAfterOwnWrite(t) => tmp[t] >= 1
        /\ (n >= 1 /\ loops >= 2 /\ \A t \in Threads : tpc[t] = "done") => counter >= 2
        /\ (Returned /\ n >= 1 /\ loops >= 1) => ret >= 1
        /\ (Returned /\ n >= 1 /\ loops >= 2) => ret >= 2
        /\ (Returned /\ n = 1) => ret = loops

\* the floor is reached: two or more workers, MaxLoops iterations each, and 2
\* is returned
C23_Witness ==
    /\ incFn = "unsafe_increment"
    /\ Returned
    /\ n >= 2
    /\ loops = MaxLoops
    /\ loops >= 2
    /\ ret = 2

====
